---- MODULE Spec2Model ----
(***************************************************************************)
(* Archetype storage of hecs (src/src/archetype.rs): one contiguous byte   *)
(* buffer holding every column, an entity-id sidecar, swap-remove,         *)
(* amortised growth and the per-component move protocol.                   *)
(*                                                                         *)
(* Addresses are byte offsets from the base of an archetype's buffer; a    *)
(* buffer is a sequence of bytes, byte offset o being element o + 1.       *)
(***************************************************************************)
EXTENDS Integers, Sequences, FiniteSets, TLC

(***************************************************************************)
(* Bounds of the explored workloads.                                       *)
(***************************************************************************)
MaxIds == 3          \* entities spawned in the mixed workload
MaxMoves == 1        \* rows migrated between archetypes in either workload
BulkRows == 64       \* rows loaded before other calls in the bulk workload
MaxGrowIds == 65     \* entities spawned in the bulk workload
MaxLayoutTypes == 3  \* component types of an archetype in the layout workload
LayoutRows == 65     \* entities spawned in the layout workload
MisuseIds == 2       \* entities spawned before a call with an arbitrary row or size

(***************************************************************************)
(* Option<T>; a byte of MaybeUninit<u8> that was never written (outside    *)
(* 0..255); the sidecar filler !0u32, all bits set, written as the two's   *)
(* complement -1 because TLC's integers are 32-bit signed.                 *)
(***************************************************************************)
None == <<>>
Some(x) == <<x>>
unwrap(o) == o[1]
Uninit == 256
Sentinel == -1

(***************************************************************************)
(* TypeInfo: id, layout (size, align) and the drop thunk.  TypeInfo::of    *)
(* builds the three from the type; the thunk is named by the type it       *)
(* destructs.                                                              *)
(***************************************************************************)
of(id, size, alignment) ==
    [id |-> id, layout |-> [size |-> size, align |-> alignment], drop |-> id]

TA == of(1, 4, 4)
TB == of(2, 1, 1)
AllTypes == {TA, TB}
TypeIds == {ty.id : ty \in AllTypes}
ArchIds == {1, 2}
\* The descriptor sequences (sorted, as Archetype::new requires) the registry
\* creates its two archetypes with.
TypeSeqs == {<< <<>>, <<TA, TB>> >>, << <<TA>>, <<TA, TB>> >>,
             << <<TA, TB>>, <<TA, TB>> >>, << <<TA, TB>>, <<TA>> >>}

ids(tys) == {tys[k].id : k \in DOMAIN tys}

(***************************************************************************)
(* impl Ord / PartialOrd / PartialEq for TypeInfo.  Ordering values are    *)
(* written as strings; ord is Ord::cmp on usize and on TypeId.             *)
(***************************************************************************)
ord(x, y) == IF x < y THEN "Less" ELSE IF x = y THEN "Equal" ELSE "Greater"

reverse(o) == IF o = "Less" THEN "Greater" ELSE IF o = "Greater" THEN "Less" ELSE o

then_with(o, next) == IF o = "Equal" THEN next ELSE o

\* cmp without the reverse(): alignment ascending.
cmp_ascending(self, other) ==
    then_with(ord(self.layout.align, other.layout.align), ord(self.id, other.id))

cmp(self, other) ==
    then_with(reverse(ord(self.layout.align, other.layout.align)),
              ord(self.id, other.id))

eq(self, other) == self.id = other.id

lt(self, other) == cmp(self, other) = "Less"

\* The condition Archetype::new asserts of its argument.
sorted(tys) == \A k \in 1..(Len(tys) - 1) : lt(tys[k], tys[k + 1])

(***************************************************************************)
(* The component types of the layout workload, as TypeInfo::of yields      *)
(* them, and the registry's way from a type-set to the descriptor sequence *)
(* it hands to Archetype::new: least element first.                        *)
(***************************************************************************)
TC == of(3, 8, 8)
TD == of(4, 8, 4)
TE == of(5, 2, 2)
TF == of(6, 0, 1)
LayoutTypes == {TA, TB, TC, TD, TE, TF}
LayoutTypeIds == {ty.id : ty \in LayoutTypes}

RECURSIVE sort(_)
sort(S) ==
    IF S = {}
    THEN <<>>
    ELSE LET least == CHOOSE x \in S : \A y \in S \ {x} : lt(x, y)
         IN  <<least>> \o sort(S \ {least})

(***************************************************************************)
(* Raw memory.                                                             *)
(***************************************************************************)
read(buf, off, count) == [k \in 1..count |-> buf[off + k]]

copy_nonoverlapping(src, src_off, dst, dst_off, count) ==
    [k \in 1..Len(dst) |->
        IF k > dst_off /\ k <= dst_off + count
        THEN src[src_off + (k - dst_off)]
        ELSE dst[k]]

align(x, alignment) ==
    (x + alignment - 1) - ((x + alignment - 1) % alignment)

(***************************************************************************)
(* Archetype::new                                                          *)
(***************************************************************************)
new(tys) ==
    [types |-> tys,
     offsets |-> [t \in {} |-> 0],
     entities |-> <<>>,
     len |-> 0,
     data |-> <<>>]

data(self, T) ==
    IF T \in DOMAIN self.offsets THEN Some(self.offsets[T]) ELSE None

entity_id(self, index) == self.entities[index + 1]

get_dynamic(self, ty, size, index) ==
    IF ty \in DOMAIN self.offsets
    THEN Some(self.offsets[ty] + size * index)
    ELSE None

(***************************************************************************)
(* Archetype::allocate                                                     *)
(***************************************************************************)
\* The layout loop recording each offset after the column has been added.
RECURSIVE layout_loop_insert_after(_, _, _, _, _)
layout_loop_insert_after(tys, k, count, data_size, offsets) ==
    IF k > Len(tys)
    THEN [data_size |-> data_size, offsets |-> offsets]
    ELSE LET ty == tys[k]
             aligned == align(data_size, ty.layout.align)
         IN  layout_loop_insert_after(tys, k + 1, count,
                         aligned + ty.layout.size * count,
                         (ty.id :> aligned + ty.layout.size * count) @@ offsets)

\* The layout loop advancing the cursor by one value instead of a column.
RECURSIVE layout_loop_one_row(_, _, _, _, _)
layout_loop_one_row(tys, k, count, data_size, offsets) ==
    IF k > Len(tys)
    THEN [data_size |-> data_size, offsets |-> offsets]
    ELSE LET ty == tys[k]
             aligned == align(data_size, ty.layout.align)
         IN  layout_loop_one_row(tys, k + 1, count,
                         aligned + ty.layout.size,
                         (ty.id :> aligned) @@ offsets)

RECURSIVE layout_loop(_, _, _, _, _)
layout_loop(tys, k, count, data_size, offsets) ==
    IF k > Len(tys)
    THEN [data_size |-> data_size, offsets |-> offsets]
    ELSE LET ty == tys[k]
             aligned == align(data_size, ty.layout.align)
         IN  layout_loop(tys, k + 1, count,
                         aligned + ty.layout.size * count,
                         (ty.id :> aligned) @@ offsets)

RECURSIVE grow_copy(_, _, _, _, _)
grow_copy(self, k, offsets, old_count, new_data) ==
    IF k > Len(self.types)
    THEN new_data
    ELSE LET ty == self.types[k]
             old_off == self.offsets[ty.id]
             new_off == offsets[ty.id]
         IN  grow_copy(self, k + 1, offsets, old_count,
                       copy_nonoverlapping(self.data, old_off, new_data, new_off,
                                           ty.layout.size * old_count))

\* new_count growing by half instead of doubling.
new_count_half_again(old_count) ==
    IF old_count = 0 THEN 64 ELSE old_count + old_count \div 2

new_count(old_count) == IF old_count = 0 THEN 64 ELSE old_count * 2

\* grow with the old columns copied to their old offsets in the new buffer.
grow_stale_offsets(self) ==
    LET old_count == Len(self.entities)
        count == new_count(old_count)
        new_entities == [k \in 1..count |->
                            IF k <= old_count THEN self.entities[k] ELSE Sentinel]
        lay == layout_loop(self.types, 1, count, 0, [t \in {} |-> 0])
        raw == [k \in 1..lay.data_size |-> Uninit]
        new_data == IF Len(self.data) # 0
                    THEN grow_copy(self, 1, self.offsets, old_count, raw)
                    ELSE raw
    IN  [self EXCEPT !.entities = new_entities,
                     !.data = new_data,
                     !.offsets = lay.offsets]

grow(self) ==
    LET old_count == Len(self.entities)
        count == new_count(old_count)
        new_entities == [k \in 1..count |->
                            IF k <= old_count THEN self.entities[k] ELSE Sentinel]
        lay == layout_loop(self.types, 1, count, 0, [t \in {} |-> 0])
        raw == [k \in 1..lay.data_size |-> Uninit]
        new_data == IF Len(self.data) # 0
                    THEN grow_copy(self, 1, lay.offsets, old_count, raw)
                    ELSE raw
    IN  [self EXCEPT !.entities = new_entities,
                     !.data = new_data,
                     !.offsets = lay.offsets]

\* allocate returning len after the increment.
allocate_returns_len(self, id) ==
    LET s == IF self.len < Len(self.entities) THEN self ELSE grow(self)
    IN  [self |-> [s EXCEPT !.entities[self.len + 1] = id, !.len = self.len + 1],
         ret |-> self.len + 1]

\* allocate that takes the fast path while len <= capacity.
allocate_grows_late(self, id) ==
    LET s == IF self.len <= Len(self.entities) THEN self ELSE grow(self)
    IN  [self |-> [s EXCEPT !.entities[self.len + 1] = id, !.len = self.len + 1],
         ret |-> self.len]

allocate(self, id) ==
    LET s == IF self.len < Len(self.entities) THEN self ELSE grow(self)
    IN  [self |-> [s EXCEPT !.entities[self.len + 1] = id, !.len = self.len + 1],
         ret |-> self.len]

(***************************************************************************)
(* Archetype::put_dynamic                                                  *)
(***************************************************************************)
put_dynamic(self, component, ty, size, index) ==
    LET ptr == unwrap(get_dynamic(self, ty, size, index))
    IN  [self EXCEPT !.data = copy_nonoverlapping(component, 0, self.data, ptr, size)]

(***************************************************************************)
(* A call of a drop thunk: (ty.drop)(ptr) destructs the value of            *)
(* ty.layout.size bytes that lies at ptr.                                   *)
(***************************************************************************)
drop_ptr(ty, buf, ptr) ==
    [drop |-> ty.drop, ptr |-> ptr, value |-> read(buf, ptr, ty.layout.size)]

(***************************************************************************)
(* Archetype::clear: columns in descriptor order, rows 0..len in each.     *)
(***************************************************************************)
RECURSIVE clear_loop(_, _, _)
clear_loop(self, k, drops) ==
    IF k > Len(self.types)
    THEN drops
    ELSE LET ty == self.types[k]
             removed(index) == unwrap(get_dynamic(self, ty.id, ty.layout.size, index))
         IN  clear_loop(self, k + 1,
                        drops \o [n \in 1..self.len |->
                                      drop_ptr(ty, self.data, removed(n - 1))])

\* clear that leaves len as it was.
clear_keeps_len(self) ==
    [self |-> self,
     drops |-> clear_loop(self, 1, <<>>)]

\* clear whose row loop stops one row early.
clear_skips_last_row(self) ==
    [self |-> [self EXCEPT !.len = 0],
     drops |-> clear_loop([self EXCEPT !.len = IF @ > 0 THEN @ - 1 ELSE 0], 1, <<>>)]

clear(self) ==
    [self |-> [self EXCEPT !.len = 0],
     drops |-> clear_loop(self, 1, <<>>)]

(***************************************************************************)
(* Archetype::remove                                                       *)
(***************************************************************************)
RECURSIVE remove_loop(_, _, _, _, _, _)
remove_loop(self, k, index, last, buf, drops) ==
    IF k > Len(self.types)
    THEN [data |-> buf, drops |-> drops]
    ELSE LET ty == self.types[k]
             removed == unwrap(get_dynamic(self, ty.id, ty.layout.size, index))
             from == unwrap(get_dynamic(self, ty.id, ty.layout.size, last))
         IN  remove_loop(self, k + 1, index, last,
                         IF index # last
                         THEN copy_nonoverlapping(buf, from, buf, removed, ty.layout.size)
                         ELSE buf,
                         Append(drops, drop_ptr(ty, buf, removed)))

\* remove that leaves the sidecar as it was.
remove_keeps_sidecar(self, index) ==
    LET last == self.len - 1
        r == remove_loop(self, 1, index, last, self.data, <<>>)
    IN  [self |-> [self EXCEPT !.data = r.data, !.len = last],
         ret |-> IF index # last THEN Some(self.entities[last + 1]) ELSE None,
         drops |-> r.drops]

\* remove returning the id of the removed entity.
remove_returns_removed(self, index) ==
    LET last == self.len - 1
        r == remove_loop(self, 1, index, last, self.data, <<>>)
    IN  [self |-> [self EXCEPT
                     !.data = r.data,
                     !.len = last,
                     !.entities = IF index # last
                                  THEN [@ EXCEPT ![index + 1] = self.entities[last + 1]]
                                  ELSE @],
         ret |-> IF index # last THEN Some(self.entities[index + 1]) ELSE None,
         drops |-> r.drops]

remove(self, index) ==
    LET last == self.len - 1
        r == remove_loop(self, 1, index, last, self.data, <<>>)
    IN  [self |-> [self EXCEPT
                     !.data = r.data,
                     !.len = last,
                     !.entities = IF index # last
                                  THEN [@ EXCEPT ![index + 1] = self.entities[last + 1]]
                                  ELSE @],
         ret |-> IF index # last THEN Some(self.entities[last + 1]) ELSE None,
         drops |-> r.drops]

(***************************************************************************)
(* Archetype::move_to.  The visitor f is the caller's; calls lists, in     *)
(* order, the arguments of each invocation together with the bytes that    *)
(* lie at the pointer when f runs (value) and the bytes of row index in    *)
(* every column at that moment (seen).  The function returns ().           *)
(***************************************************************************)
seen_row(self, buf, index) ==
    [j \in DOMAIN self.types |->
        read(buf,
             unwrap(get_dynamic(self, self.types[j].id, self.types[j].layout.size, index)),
             self.types[j].layout.size)]

\* The loop body with the copy placed before the call of f.
RECURSIVE move_loop_copy_then_visit(_, _, _, _, _, _)
move_loop_copy_then_visit(self, k, index, last, buf, calls) ==
    IF k > Len(self.types)
    THEN [data |-> buf, calls |-> calls]
    ELSE LET ty == self.types[k]
             moved == unwrap(get_dynamic(self, ty.id, ty.layout.size, index))
             from == unwrap(get_dynamic(self, ty.id, ty.layout.size, last))
             copied == IF index # last
                       THEN copy_nonoverlapping(buf, from, buf, moved, ty.layout.size)
                       ELSE buf
         IN  move_loop_copy_then_visit(self, k + 1, index, last, copied,
                       Append(calls, [ptr |-> moved, ty |-> ty.id,
                                      size |-> ty.layout.size,
                                      value |-> read(copied, moved, ty.layout.size),
                                      seen |-> seen_row(self, copied, index)]))

RECURSIVE move_loop(_, _, _, _, _, _)
move_loop(self, k, index, last, buf, calls) ==
    IF k > Len(self.types)
    THEN [data |-> buf, calls |-> calls]
    ELSE LET ty == self.types[k]
             moved == unwrap(get_dynamic(self, ty.id, ty.layout.size, index))
             from == unwrap(get_dynamic(self, ty.id, ty.layout.size, last))
         IN  move_loop(self, k + 1, index, last,
                       IF index # last
                       THEN copy_nonoverlapping(buf, from, buf, moved, ty.layout.size)
                       ELSE buf,
                       Append(calls, [ptr |-> moved, ty |-> ty.id,
                                      size |-> ty.layout.size,
                                      value |-> read(buf, moved, ty.layout.size),
                                      seen |-> seen_row(self, buf, index)]))

\* move_to that leaves the sidecar as it was.
move_to_keeps_sidecar(self, index) ==
    LET last == self.len - 1
        r == move_loop(self, 1, index, last, self.data, <<>>)
    IN  [self |-> [self EXCEPT !.data = r.data, !.len = self.len - 1],
         ret |-> None,
         calls |-> r.calls]

\* move_to that compacts every column before it runs the visitor.
move_to_copy_first(self, index) ==
    LET last == self.len - 1
        r == move_loop(self, 1, index, last, self.data, <<>>)
    IN  [self |-> [self EXCEPT
                     !.data = r.data,
                     !.entities = IF index # last
                                  THEN [@ EXCEPT ![index + 1] = self.entities[last + 1]]
                                  ELSE @,
                     !.len = self.len - 1],
         ret |-> None,
         calls |-> [k \in DOMAIN r.calls |->
                       [r.calls[k] EXCEPT
                          !.value = read(r.data, r.calls[k].ptr, r.calls[k].size)]]]

\* move_to that leaves len as it was.
move_to_keeps_len(self, index) ==
    LET last == self.len - 1
        r == move_loop(self, 1, index, last, self.data, <<>>)
    IN  [self |-> [self EXCEPT
                     !.data = r.data,
                     !.entities = IF index # last
                                  THEN [@ EXCEPT ![index + 1] = self.entities[last + 1]]
                                  ELSE @],
         ret |-> None,
         calls |-> r.calls]

move_to(self, index) ==
    LET last == self.len - 1
        r == move_loop(self, 1, index, last, self.data, <<>>)
    IN  [self |-> [self EXCEPT
                     !.data = r.data,
                     !.entities = IF index # last
                                  THEN [@ EXCEPT ![index + 1] = self.entities[last + 1]]
                                  ELSE @,
                     !.len = self.len - 1],
         ret |-> None,
         calls |-> r.calls]

(***************************************************************************)
(* impl Drop for Archetype                                                 *)
(***************************************************************************)
\* drop that destructs every row of the capacity.
drop_whole_capacity(self) ==
    [self |-> [self EXCEPT !.len = 0],
     drops |-> clear_loop([self EXCEPT !.len = Len(self.entities)], 1, <<>>)]

drop(self) == clear(self)

(***************************************************************************)
(* The outcome of a call in a debug build, for any row index and any size: *)
(* debug_assert! and the overflow check of `self.len - 1` are compiled in, *)
(* a slice index is checked against the slice's length, unwrap() panics on *)
(* None.  self is the archetype as the call leaves it.                     *)
(***************************************************************************)
panicked(self) ==
    [panic |-> TRUE, self |-> self, ret |-> None, drops |-> <<>>, calls |-> <<>>]

returned(self, ret) ==
    [panic |-> FALSE, self |-> self, ret |-> ret, drops |-> <<>>, calls |-> <<>>]

debug_entity_id(self, index) ==
    IF index < Len(self.entities)
    THEN returned(self, Some(entity_id(self, index)))
    ELSE panicked(self)

\* get::<T>(index), T given by its descriptor.
debug_get(self, T, index) ==
    IF ~(index < self.len)
    THEN panicked(self)
    ELSE returned(self, IF data(self, T.id) = None
                        THEN None
                        ELSE Some(unwrap(data(self, T.id)) + T.layout.size * index))

debug_get_dynamic(self, ty, size, index) ==
    IF ~(index < self.len)
    THEN panicked(self)
    ELSE returned(self, get_dynamic(self, ty, size, index))

debug_put_dynamic(self, component, ty, size, index) ==
    LET ptr == debug_get_dynamic(self, ty, size, index)
    IN  IF ptr.panic \/ ptr.ret = None
        THEN panicked(self)
        ELSE returned(put_dynamic(self, component, ty, size, index), None)

debug_remove(self, index) ==
    IF self.len = 0
    THEN panicked(self)
    ELSE IF self.types # <<>> /\ ~(index < self.len)
    THEN panicked(self)
    ELSE IF index # self.len - 1 /\ ~(index < Len(self.entities))
    THEN panicked([self EXCEPT !.len = self.len - 1])
    ELSE LET r == remove(self, index)
         IN  [panic |-> FALSE, self |-> r.self, ret |-> r.ret, drops |-> r.drops,
              calls |-> <<>>]

debug_move_to(self, index) ==
    IF self.len = 0
    THEN panicked(self)
    ELSE IF self.types # <<>> /\ ~(index < self.len)
    THEN panicked(self)
    ELSE IF index # self.len - 1 /\ ~(index < Len(self.entities))
    THEN panicked(self)
    ELSE LET r == move_to(self, index)
         IN  [panic |-> FALSE, self |-> r.self, ret |-> r.ret, drops |-> <<>>,
              calls |-> r.calls]

(***************************************************************************)
(* The caller's side.  The registry numbers its entities 10, 20, 30, ...;  *)
(* the n-th component it constructs of a type is the little-endian image   *)
(* of 259 * n truncated to the type's size, so that no two values of one   *)
(* type share their bytes.                                                 *)
(***************************************************************************)
RECURSIVE to_le_bytes(_, _)
to_le_bytes(x, size) ==
    IF size = 0 THEN <<>> ELSE <<x % 256>> \o to_le_bytes(x \div 256, size - 1)

construct(ty, n) == to_le_bytes(259 * n, ty.layout.size)

new_id(n) == 10 * n

type_of(id) == CHOOSE ty \in AllTypes : ty.id = id

VARIABLES
    archs,        \* the archetypes
    alive,        \* archetypes not yet destroyed
    pending,      \* the row allocated and not yet written in every column
    spawned,      \* entity ids handed out so far
    migrated,     \* destination rows allocated for an entity being moved
    constructed,  \* per type: component values constructed so far
    dropCount,    \* per type: invocations of the drop thunk so far
    dropped,      \* <<type, bytes>> of every value a drop thunk was run on
    lastPut,      \* <<entity, type>> -> the bytes last put for it
    loc,          \* entity -> <<archetype, row>>, kept from returned values
    call          \* the most recent call and what it returned

vars == <<archs, alive, pending, spawned, migrated, constructed, dropCount, dropped,
          lastPut, loc, call>>

Init ==
    /\ archs \in {[a \in ArchIds |-> new(tys[a])] : tys \in TypeSeqs}
    /\ alive = [a \in ArchIds |-> TRUE]
    /\ pending = None
    /\ spawned = 0
    /\ migrated = 0
    /\ constructed = [t \in TypeIds |-> 0]
    /\ dropCount = [t \in TypeIds |-> 0]
    /\ dropped = {}
    /\ lastPut = [k \in {} |-> <<>>]
    /\ loc = [e \in {} |-> <<>>]
    /\ call = [op |-> "new", arch |-> 0, arg |-> 0, ret |-> None,
               drops |-> <<>>, calls |-> <<>>]

run_drops(drops) ==
    /\ dropCount' = [t \in TypeIds |->
                        dropCount[t] + Cardinality({k \in DOMAIN drops : drops[k].drop = t})]
    /\ dropped' = dropped \cup {<<drops[k].drop, drops[k].value>> : k \in DOMAIN drops}

settle(p) == IF p.todo = {} /\ p.src = None THEN None ELSE Some(p)

without(f, keys) == [k \in DOMAIN f \ keys |-> f[k]]

(***************************************************************************)
(* allocate(id), for a new entity (src = None) or for the entity that is   *)
(* about to be moved out of row src[2] of archetype src[1].                *)
(***************************************************************************)
Allocate(a, id, src) ==
    /\ alive[a]
    /\ pending = None
    /\ LET r == allocate(archs[a], id)
       IN  /\ archs' = [archs EXCEPT ![a] = r.self]
           /\ pending' = settle([arch |-> a, row |-> r.ret,
                                 todo |-> ids(archs[a].types), src |-> src])
           /\ loc' = ((id :> <<a, r.ret>>) @@ loc)
           /\ call' = [op |-> "allocate", arch |-> a, arg |-> id,
                       ret |-> Some(r.ret), drops |-> <<>>, calls |-> <<>>]
    /\ spawned' = IF src = None THEN spawned + 1 ELSE spawned
    /\ migrated' = IF src = None THEN migrated ELSE migrated + 1
    /\ UNCHANGED <<alive, constructed, dropCount, dropped, lastPut>>

(***************************************************************************)
(* put_dynamic of a newly constructed component into the pending row; the  *)
(* columns are written in descriptor order.                                *)
(***************************************************************************)
Put(a, k) ==
    /\ pending # None
    /\ LET p == unwrap(pending)
           self == archs[a]
       IN  /\ p.arch = a
           /\ p.src = None
           /\ k \in DOMAIN self.types
           /\ self.types[k].id \in p.todo
           /\ \A j \in 1..(k - 1) : self.types[j].id \notin p.todo
           /\ LET ty == self.types[k]
                  component == construct(ty, constructed[ty.id] + 1)
              IN  /\ archs' = [archs EXCEPT ![a] =
                         put_dynamic(self, component, ty.id, ty.layout.size, p.row)]
                  /\ constructed' = [constructed EXCEPT ![ty.id] = @ + 1]
                  /\ lastPut' = ((<<entity_id(self, p.row), ty.id>> :> component) @@ lastPut)
                  /\ pending' = settle([p EXCEPT !.todo = @ \ {ty.id}])
                  /\ call' = [op |-> "put_dynamic", arch |-> a, arg |-> p.row,
                              ret |-> None, drops |-> <<>>, calls |-> <<>>]
    /\ UNCHANGED <<alive, spawned, migrated, dropCount, dropped, loc>>

(***************************************************************************)
(* remove(index); the registry forgets the removed entity and records the  *)
(* returned entity at index.                                               *)
(***************************************************************************)
Remove(a, index) ==
    /\ alive[a]
    /\ pending = None
    /\ index < archs[a].len
    /\ LET r == remove(archs[a], index)
           gone == entity_id(archs[a], index)
       IN  /\ archs' = [archs EXCEPT ![a] = r.self]
           /\ run_drops(r.drops)
           /\ loc' = IF r.ret = None
                     THEN without(loc, {gone})
                     ELSE (unwrap(r.ret) :> <<a, index>>) @@ without(loc, {gone})
           /\ call' = [op |-> "remove", arch |-> a, arg |-> index,
                       ret |-> r.ret, drops |-> r.drops, calls |-> <<>>]
    /\ UNCHANGED <<alive, pending, spawned, migrated, constructed, lastPut>>

(***************************************************************************)
(* move_to(index, f) for the entity whose destination row is pending: f    *)
(* puts each component the destination carries into that row and runs the  *)
(* drop thunk on the others.  The call returns nothing to the registry.    *)
(***************************************************************************)
RECURSIVE visit_puts(_, _, _, _, _)
visit_puts(dest, has, dest_row, calls, k) ==
    IF k > Len(calls)
    THEN dest
    ELSE visit_puts(IF calls[k].ty \in has
                    THEN put_dynamic(dest, calls[k].value, calls[k].ty, calls[k].size,
                                     dest_row)
                    ELSE dest,
                    has, dest_row, calls, k + 1)

visit_drops(has, calls) ==
    LET unused == SelectSeq(calls, LAMBDA c : c.ty \notin has)
    IN  [k \in DOMAIN unused |->
            [drop |-> type_of(unused[k].ty).drop, ptr |-> unused[k].ptr,
             value |-> unused[k].value]]

MoveTo(a, index) ==
    /\ alive[a]
    /\ index < archs[a].len
    /\ pending # None
    /\ LET p == unwrap(pending)
           r == move_to(archs[a], index)
           gone == entity_id(archs[a], index)
           has == p.todo
           puts == {r.calls[k].ty : k \in DOMAIN r.calls} \cap has
           drops == visit_drops(has, r.calls)
       IN  /\ p.src = Some(<<a, index>>)
           /\ archs' = [archs EXCEPT
                          ![a] = r.self,
                          ![p.arch] = visit_puts(@, has, p.row, r.calls, 1)]
           /\ run_drops(drops)
           /\ lastPut' = [c \in {<<gone, t>> : t \in puts} |->
                             (CHOOSE x \in {r.calls[k] : k \in DOMAIN r.calls} :
                                  x.ty = c[2]).value] @@ lastPut
           /\ pending' = settle([p EXCEPT !.todo = @ \ puts, !.src = None])
           /\ call' = [op |-> "move_to", arch |-> a, arg |-> index,
                       ret |-> r.ret, drops |-> drops, calls |-> r.calls]
    /\ UNCHANGED <<alive, spawned, migrated, constructed, loc>>

(***************************************************************************)
(* clear(); the registry forgets every entity of the archetype.            *)
(***************************************************************************)
Clear(a) ==
    /\ alive[a]
    /\ pending = None
    /\ LET r == clear(archs[a])
       IN  /\ archs' = [archs EXCEPT ![a] = r.self]
           /\ run_drops(r.drops)
           /\ loc' = [e \in {x \in DOMAIN loc : loc[x][1] # a} |-> loc[e]]
           /\ call' = [op |-> "clear", arch |-> a, arg |-> 0, ret |-> None,
                       drops |-> r.drops, calls |-> <<>>]
    /\ UNCHANGED <<alive, pending, spawned, migrated, constructed, lastPut>>

(***************************************************************************)
(* The archetype is destroyed: drop() runs, then its storage is released.  *)
(***************************************************************************)
Drop(a) ==
    /\ alive[a]
    /\ pending = None
    /\ LET r == drop(archs[a])
       IN  /\ archs' = [archs EXCEPT ![a] = r.self]
           /\ run_drops(r.drops)
           /\ loc' = [e \in {x \in DOMAIN loc : loc[x][1] # a} |-> loc[e]]
           /\ call' = [op |-> "drop", arch |-> a, arg |-> 0, ret |-> None,
                       drops |-> r.drops, calls |-> <<>>]
    /\ alive' = [alive EXCEPT ![a] = FALSE]
    /\ UNCHANGED <<pending, spawned, migrated, constructed, lastPut>>

(***************************************************************************)
(* The calls a workload makes: at most maxIds entities, spawned into the   *)
(* archetypes homes; at most MaxMoves migrations; rows are removed, moved  *)
(* and cleared once an archetype holds minRows rows, at every row index or *)
(* (sparse) at the first, the middle and the last.                         *)
(***************************************************************************)
AllRows(n) == 0..(n - 1)
ProbeRows(n) == {0, n \div 2, n - 1} \cap 0..(n - 1)
probes(n, sparse) == IF sparse THEN ProbeRows(n) ELSE AllRows(n)

Calls(maxIds, homes, minRows, sparse) ==
    \/ \E a \in homes :
          /\ spawned < maxIds
          /\ Allocate(a, new_id(spawned + 1), None)
    \/ \E src \in ArchIds, a \in ArchIds :
          /\ a # src
          /\ alive[src]
          /\ archs[src].len >= minRows
          /\ migrated < MaxMoves
          /\ \E index \in probes(archs[src].len, sparse) :
                Allocate(a, entity_id(archs[src], index), Some(<<src, index>>))
    \/ \E a \in ArchIds, k \in 1..Cardinality(AllTypes) : Put(a, k)
    \/ \E a \in ArchIds :
          /\ archs[a].len >= minRows
          /\ \E index \in probes(archs[a].len, sparse) : Remove(a, index)
    \/ \E a \in ArchIds :
          \E index \in probes(archs[a].len, sparse) : MoveTo(a, index)
    \/ \E a \in ArchIds : archs[a].len >= minRows /\ Clear(a)
    \/ \E a \in ArchIds : archs[a].len >= minRows /\ Drop(a)

Next == Calls(MaxIds, {1}, 0, FALSE)

Spec == Init /\ [][Next]_vars

NextGrowth == Calls(MaxGrowIds, {1}, BulkRows, TRUE)

SpecGrowth == Init /\ [][NextGrowth]_vars

(***************************************************************************)
(* The layout workload: one archetype for every type-set of at most        *)
(* MaxLayoutTypes of the layout types, filled row by row through its       *)
(* first two growths; before that the registry compares descriptors.       *)
(***************************************************************************)
Cmp(x, y) ==
    /\ call' = [op |-> "cmp", arch |-> 0, arg |-> <<x, y>>,
                ret |-> Some([cmp |-> cmp(x, y), rev |-> cmp(y, x), eq |-> eq(x, y)]),
                drops |-> <<>>, calls |-> <<>>]
    /\ UNCHANGED <<archs, alive, pending, spawned, migrated, constructed, dropCount,
                   dropped, lastPut, loc>>

InitLayout ==
    /\ archs \in {[a \in ArchIds |-> IF a = 1 THEN new(sort(S)) ELSE new(<<>>)] :
                     S \in {T \in SUBSET LayoutTypes : Cardinality(T) <= MaxLayoutTypes}}
    /\ alive = [a \in ArchIds |-> TRUE]
    /\ pending = None
    /\ spawned = 0
    /\ migrated = 0
    /\ constructed = [t \in LayoutTypeIds |-> 0]
    /\ dropCount = [t \in LayoutTypeIds |-> 0]
    /\ dropped = {}
    /\ lastPut = [k \in {} |-> <<>>]
    /\ loc = [e \in {} |-> <<>>]
    /\ call = [op |-> "new", arch |-> 0, arg |-> 0, ret |-> None,
               drops |-> <<>>, calls |-> <<>>]

NextLayout ==
    \/ \E x \in LayoutTypes, y \in LayoutTypes :
          /\ spawned = 0
          /\ pending = None
          /\ Cmp(x, y)
    \/ /\ spawned < LayoutRows
       /\ Allocate(1, new_id(spawned + 1), None)
    \/ \E k \in 1..MaxLayoutTypes : Put(1, k)

SpecLayout == InitLayout /\ [][NextLayout]_vars

(***************************************************************************)
(* The misuse workload: after a short run of the mixed workload, one call  *)
(* of a row-taking operation in a debug build with a row index at, below   *)
(* or beyond len, and for the size-taking ones with the size of any        *)
(* component type.  remove and move_to are called here only with rows at   *)
(* or beyond len; put_dynamic only where the bytes it would write lie      *)
(* inside the buffer.                                                      *)
(***************************************************************************)
Sizes == {ty.layout.size : ty \in AllTypes}

CallRows(self) == {0, self.len, Len(self.entities)}

debug_call(op, a, index, ty, size, r) ==
    /\ archs' = [archs EXCEPT ![a] = r.self]
    /\ call' = [op |-> op, arch |-> a, arg |-> index, ty |-> ty, size |-> size,
                panic |-> r.panic, ret |-> r.ret, drops |-> r.drops, calls |-> r.calls]
    /\ UNCHANGED <<alive, pending, spawned, migrated, constructed, dropCount, dropped,
                   lastPut, loc>>

EntityId(a, index) ==
    /\ alive[a]
    /\ debug_call("entity_id", a, index, 0, 0, debug_entity_id(archs[a], index))

Get(a, T, index) ==
    /\ alive[a]
    /\ debug_call("get", a, index, T.id, T.layout.size, debug_get(archs[a], T, index))

GetDynamic(a, ty, size, index) ==
    /\ alive[a]
    /\ debug_call("get_dynamic", a, index, ty, size,
                  debug_get_dynamic(archs[a], ty, size, index))

PutDynamic(a, ty, size, index) ==
    /\ alive[a]
    /\ ty \in DOMAIN archs[a].offsets =>
          archs[a].offsets[ty] + size * index + size <= Len(archs[a].data)
    /\ debug_call("put_dynamic", a, index, ty, size,
                  debug_put_dynamic(archs[a], to_le_bytes(259 * (constructed[ty] + 1), size),
                                    ty, size, index))

RemoveBeyond(a, index) ==
    /\ alive[a]
    /\ index >= archs[a].len
    /\ debug_call("remove", a, index, 0, 0, debug_remove(archs[a], index))

MoveToBeyond(a, index) ==
    /\ alive[a]
    /\ index >= archs[a].len
    /\ debug_call("move_to", a, index, 0, 0, debug_move_to(archs[a], index))

Ready == "panic" \notin DOMAIN call

NextMisuse ==
    \/ Ready /\ Calls(MisuseIds, {1}, 0, FALSE)
    \/ \E a \in ArchIds : \E index \in CallRows(archs[a]) :
          Ready /\ EntityId(a, index)
    \/ \E a \in ArchIds : \E index \in CallRows(archs[a]) : \E T \in AllTypes :
          Ready /\ Get(a, T, index)
    \/ \E a \in ArchIds : \E index \in CallRows(archs[a]) :
          \E ty \in TypeIds : \E size \in Sizes : Ready /\ GetDynamic(a, ty, size, index)
    \/ \E a \in ArchIds : \E index \in CallRows(archs[a]) :
          \E ty \in TypeIds : \E size \in Sizes : Ready /\ PutDynamic(a, ty, size, index)
    \/ \E a \in ArchIds : \E index \in CallRows(archs[a]) :
          Ready /\ RemoveBeyond(a, index)
    \/ \E a \in ArchIds : \E index \in CallRows(archs[a]) :
          Ready /\ MoveToBeyond(a, index)

SpecMisuse == Init /\ [][NextMisuse]_vars

(***************************************************************************)
(* Reading the storage back: the capacity, the bytes of one slot, and one  *)
(* row across every column.                                                *)
(***************************************************************************)
capacity(self) == Len(self.entities)

cell(self, ty, j) ==
    read(self.data, self.offsets[ty.id] + ty.layout.size * j, ty.layout.size)

row(self, j) == [k \in DOMAIN self.types |-> cell(self, self.types[k], j)]

(***************************************************************************)
(* C1.  Swap-remove: remove(i) on an archetype of L >= 1 rows, i < L,       *)
(* leaves L - 1 rows; when i < L - 1, row i then holds in every column the *)
(* bytes, and in the sidecar the entity id, that row L - 1 held; every     *)
(* other row j < L - 1 keeps its bytes and its entity id.                  *)
(***************************************************************************)
SwapRemovePost(old, now, i) ==
    /\ now.len = old.len - 1
    /\ i < old.len - 1 =>
          /\ row(now, i) = row(old, old.len - 1)
          /\ entity_id(now, i) = entity_id(old, old.len - 1)
    /\ \A j \in 0..(old.len - 2) :
          j # i => /\ row(now, j) = row(old, j)
                   /\ entity_id(now, j) = entity_id(old, j)

C1_SwapRemove ==
    [][call'.op = "remove" =>
          SwapRemovePost(archs[call'.arch], archs'[call'.arch], call'.arg)]_vars

C1_Witness ==
    /\ call.op = "remove"
    /\ archs[call.arch].types # <<>>
    /\ archs[call.arch].len >= 2
    /\ call.arg < archs[call.arch].len - 1

(***************************************************************************)
(* C2.  remove(i) returns the entity id that occupied the last row when i  *)
(* is not the last row, and none when it is; with rows 10, 20, 30,         *)
(* remove(0) returns 30 and leaves entity_id(0) = 30, entity_id(1) = 20.   *)
(***************************************************************************)
C2_RemoveReturns ==
    [][call'.op = "remove" =>
          LET old == archs[call'.arch]
          IN  call'.ret = IF call'.arg # old.len - 1
                          THEN Some(entity_id(old, old.len - 1))
                          ELSE None]_vars

C2_Witness ==
    /\ call.op = "remove"
    /\ call.arg = 0
    /\ call.ret = Some(30)
    /\ archs[call.arch].len = 2
    /\ entity_id(archs[call.arch], 0) = 30
    /\ entity_id(archs[call.arch], 1) = 20

(***************************************************************************)
(* C3.  Growth preservation: an allocate made with len = capacity keeps,   *)
(* for every type and every row j < len, the bytes of the column at row j  *)
(* and the entity id at row j, while the capacity changes and every column *)
(* but the first moves to a new offset (the first stays at offset 0).      *)
(***************************************************************************)
Grows == call'.op = "allocate" /\ archs[call'.arch].len = capacity(archs[call'.arch])

RowsKept(old, now) ==
    \A j \in 0..(old.len - 1) :
        /\ row(now, j) = row(old, j)
        /\ entity_id(now, j) = entity_id(old, j)

C4_AllocateReturns ==
    [][call'.op = "allocate" =>
          LET old == archs[call'.arch]
              now == archs'[call'.arch]
          IN  /\ call'.ret = Some(old.len)
              /\ now.len = old.len + 1
              /\ entity_id(now, unwrap(call'.ret)) = call'.arg]_vars

C4_Witness ==
    /\ call.op = "allocate"
    /\ call.ret = Some(64)
    /\ call.arg = 650
    /\ capacity(archs[call.arch]) = 128
    /\ archs[call.arch].len = 65

(***************************************************************************)
(* C5.  For every live row i and every type T whose slot has been written, *)
(* the bytes in column T at row i are the bytes last put for the entity    *)
(* whose id is entity_id(i): the sidecar and the columns are permuted      *)
(* alike by allocate, remove, move_to and growth.                          *)
(***************************************************************************)
Unwritten(a, j, t) ==
    /\ pending # None
    /\ unwrap(pending).arch = a
    /\ unwrap(pending).row = j
    /\ t \in unwrap(pending).todo

C5_ColumnsFollowSidecar ==
    \A a \in ArchIds : \A j \in 0..(archs[a].len - 1) : \A k \in DOMAIN archs[a].types :
        LET ty == archs[a].types[k]
            e == entity_id(archs[a], j)
        IN  ~Unwritten(a, j, ty.id) =>
                /\ <<e, ty.id>> \in DOMAIN lastPut
                /\ cell(archs[a], ty, j) = lastPut[<<e, ty.id>>]

C5_Witness ==
    /\ call.op \in {"remove", "move_to"}
    /\ call.arg = 0
    /\ capacity(archs[call.arch]) = 128
    /\ archs[call.arch].len = 64
    /\ Len(archs[call.arch].types) = 2
    /\ entity_id(archs[call.arch], 0) = 650

(***************************************************************************)
(* C6.  Destructor conservation: for every type, the values constructed    *)
(* minus the invocations of its drop thunk equal the live instances of the *)
(* type over all rows of all archetypes; no value is dropped twice, and no *)
(* live value has been dropped.                                            *)
(***************************************************************************)
LiveIn(a, t) ==
    (IF t \in ids(archs[a].types) THEN archs[a].len ELSE 0)
    - (IF Unwritten(a, archs[a].len - 1, t) THEN 1 ELSE 0)

Live(t) == LiveIn(1, t) + LiveIn(2, t)

C6_DestructorConservation ==
    \A t \in TypeIds :
        /\ constructed[t] - dropCount[t] = Live(t)
        /\ Cardinality({d \in dropped : d[1] = t}) = dropCount[t]
        /\ \A a \in ArchIds : \A j \in 0..(archs[a].len - 1) :
              (t \in ids(archs[a].types) /\ ~Unwritten(a, j, t)) =>
                  <<t, cell(archs[a], type_of(t), j)>> \notin dropped

C6_Witness ==
    /\ call.op = "drop"
    /\ call.drops # <<>>
    /\ migrated > 0
    /\ \E t \in TypeIds :
          /\ Live(t) > 0
          /\ dropCount[t] > Cardinality({n \in DOMAIN call.drops : call.drops[n].drop = t})

(***************************************************************************)
(* C7.  remove(i) and move_out(i, visitor) return the id of the entity     *)
(* relocated into row i, so a registry that keeps its entity -> row map    *)
(* from the values allocate, remove and move_out return has map[e] = r     *)
(* only if r < len and entity_id(r) = e.                                   *)
(***************************************************************************)
C7_MapFollowsReturns ==
    \A e \in DOMAIN loc :
        /\ loc[e][2] < archs[loc[e][1]].len
        /\ entity_id(archs[loc[e][1]], loc[e][2]) = e

(***************************************************************************)
(* C8.  Round-trip move: when the destination row is allocated in an       *)
(* archetype of the same type-set and the visitor puts every component     *)
(* into it, the destination row equals in every column the source row i as *)
(* it was, the source loses one row and is compacted as by swap-remove.    *)
(***************************************************************************)
C8_RoundTripMove ==
    [][(call'.op = "move_to" /\ pending # None) =>
          LET p == unwrap(pending)
              src == archs[call'.arch]
              i == call'.arg
          IN  ids(archs[p.arch].types) = ids(src.types) =>
                  /\ row(archs'[p.arch], p.row) = row(src, i)
                  /\ SwapRemovePost(src, archs'[call'.arch], i)
                  /\ archs'[call'.arch].len = src.len - 1]_vars

C8_Witness ==
    /\ call.op = "move_to"
    /\ call.drops = <<>>
    /\ Len(call.calls) = 2
    /\ ids(archs[1].types) = ids(archs[2].types)
    /\ call.arg < archs[call.arch].len

(***************************************************************************)
(* C9.  In every reachable state, a fresh archetype included, column<T>()  *)
(* yields an address exactly when T is in the descriptor sequence and      *)
(* absent exactly when it is not.                                          *)
(***************************************************************************)
C9_ColumnIffDeclared ==
    \A a \in ArchIds : \A t \in TypeIds :
        (data(archs[a], t) # None) <=> (t \in ids(archs[a].types))

(***************************************************************************)
(* C10.  clear() runs each type's drop thunk exactly once on each row      *)
(* 0..len of the type's column and on no other row, sets len to 0 and      *)
(* leaves the capacity, the offsets, the descriptors and the buffer as     *)
(* they were, so that a following allocate returns row 0 without           *)
(* reallocating when capacity > 0.                                         *)
(***************************************************************************)
ClearPost(old, now, drops) ==
    /\ now.len = 0
    /\ capacity(now) = capacity(old)
    /\ now.offsets = old.offsets
    /\ now.types = old.types
    /\ now.data = old.data
    /\ Len(drops) = Len(old.types) * old.len
    /\ \A k \in DOMAIN old.types : \A j \in 0..(old.len - 1) :
          Cardinality({n \in DOMAIN drops :
                          /\ drops[n].drop = old.types[k].drop
                          /\ drops[n].ptr = old.offsets[old.types[k].id]
                                            + old.types[k].layout.size * j
                          /\ drops[n].value = cell(old, old.types[k], j)}) = 1
    /\ capacity(now) > 0 =>
          LET r == allocate(now, new_id(spawned + 1))
          IN  /\ r.ret = 0
              /\ capacity(r.self) = capacity(now)
              /\ r.self.offsets = now.offsets
              /\ Len(r.self.data) = Len(now.data)

C10_ClearKeepsStorage ==
    [][call'.op = "clear" =>
          /\ ClearPost(archs[call'.arch], archs'[call'.arch], call'.drops)
          /\ \A t \in TypeIds :
                dropCount'[t] - dropCount[t] =
                    IF t \in ids(archs[call'.arch].types)
                    THEN archs[call'.arch].len ELSE 0]_vars

C10_Witness ==
    /\ call.op = "clear"
    /\ Len(call.drops) >= 4
    /\ archs[call.arch].len = 0
    /\ capacity(archs[call.arch]) > 0

(***************************************************************************)
(* C11.  Destroying an archetype runs the drop thunk exactly once on each  *)
(* component of each row below len and on no row of len..capacity; a       *)
(* fresh archetype is destroyed without any invocation, and so is one      *)
(* that clear() has just emptied: rows inserted, cleared and then          *)
(* destroyed are destructed once, not twice.                               *)
(***************************************************************************)
DropPost(old, drops) ==
    /\ Len(drops) = Len(old.types) * old.len
    /\ \A k \in DOMAIN old.types : \A j \in 0..(old.len - 1) :
          Cardinality({n \in DOMAIN drops :
                          /\ drops[n].drop = old.types[k].drop
                          /\ drops[n].ptr = old.offsets[old.types[k].id]
                                            + old.types[k].layout.size * j
                          /\ drops[n].value = cell(old, old.types[k], j)}) = 1
    /\ \A n \in DOMAIN drops :
          \E k \in DOMAIN old.types : \E j \in 0..(old.len - 1) :
              /\ drops[n].drop = old.types[k].drop
              /\ drops[n].ptr = old.offsets[old.types[k].id] + old.types[k].layout.size * j
    /\ capacity(old) = 0 => drops = <<>>

C11_DropDestructsLiveRows ==
    [][call'.op = "drop" =>
          /\ DropPost(archs[call'.arch], call'.drops)
          /\ \A t \in TypeIds :
                dropCount'[t] - dropCount[t] =
                    IF t \in ids(archs[call'.arch].types)
                    THEN archs[call'.arch].len ELSE 0
          /\ (call.op = "clear" /\ call.arch = call'.arch) =>
                /\ call'.drops = <<>>
                /\ dropCount' = dropCount]_vars

C11_Witness ==
    /\ call.op = "drop"
    /\ Len(archs[call.arch].types) = 2
    /\ Len(call.drops) = 4
    /\ capacity(archs[call.arch]) = 64

(***************************************************************************)
(* C12.  len <= capacity in every state reached through allocate, remove,  *)
(* move_to, clear and growth, and an archetype on which nothing has been   *)
(* called yet has len = 0 and capacity = 0.                                *)
(***************************************************************************)
C12_LenWithinCapacity ==
    /\ \A a \in ArchIds : archs[a].len <= capacity(archs[a])
    /\ call.op = "new" =>
          \A a \in ArchIds : archs[a].len = 0 /\ capacity(archs[a]) = 0

C12_Witness ==
    /\ call.op = "allocate"
    /\ call.ret = Some(63)
    /\ archs[call.arch].len = 64
    /\ capacity(archs[call.arch]) = 64

(***************************************************************************)
(* C14.  An entity id occupies a live row of both archetypes only between  *)
(* the two steps of its migration, allocate in the destination and move_to *)
(* on the source, the destination row being the one just allocated; in     *)
(* every other state no id is live in two archetypes.                      *)
(***************************************************************************)
LiveIds(a) == {entity_id(archs[a], j) : j \in 0..(archs[a].len - 1)}

Migrating(e) ==
    /\ pending # None
    /\ unwrap(pending).src # None
    /\ LET p == unwrap(pending)
           src == unwrap(p.src)
       IN  /\ src[1] # p.arch
           /\ src[2] < archs[src[1]].len
           /\ entity_id(archs[src[1]], src[2]) = e
           /\ p.row = archs[p.arch].len - 1
           /\ entity_id(archs[p.arch], p.row) = e

C14_SharedOnlyWhileMigrating ==
    \A e \in LiveIds(1) \cap LiveIds(2) : Migrating(e)

C14_Witness ==
    /\ call.op = "move_to"
    /\ archs[call.arch].len > 0
    /\ \E a \in ArchIds :
          /\ a # call.arch
          /\ archs[a].len > 0
          /\ LiveIds(a) \cap LiveIds(call.arch) = {}

\* C14 as stated: no id is live in both, the states between the destination
\* allocate and move_to included.
C14_NoSharedId == LiveIds(1) \cap LiveIds(2) = {}

(***************************************************************************)
(* C17.  The capacity changes only in an allocate made with len =          *)
(* capacity, from 0 to 64 and otherwise to exactly twice its value;        *)
(* remove, move_to, put_dynamic and clear leave it alone, so it is always  *)
(* 0 or 64 * 2^k and never decreases.                                      *)
(***************************************************************************)
RECURSIVE IsCapacity(_)
IsCapacity(n) ==
    \/ n = 0
    \/ n = 64
    \/ n > 64 /\ n % 2 = 0 /\ IsCapacity(n \div 2)

C17_CapacityDoubles ==
    [][\A a \in ArchIds :
          LET old == archs[a]
              now == archs'[a]
          IN  /\ IsCapacity(capacity(old))
              /\ IsCapacity(capacity(now))
              /\ capacity(now) >= capacity(old)
              /\ capacity(now) # capacity(old) =>
                    /\ call'.op = "allocate"
                    /\ call'.arch = a
                    /\ old.len = capacity(old)
                    /\ capacity(now) = IF capacity(old) = 0 THEN 64
                                       ELSE 2 * capacity(old)
              /\ (call'.op = "allocate" /\ call'.arch = a /\ old.len = capacity(old)) =>
                    capacity(now) # capacity(old)]_vars

C17_Witness ==
    /\ call.op = "clear"
    /\ capacity(archs[call.arch]) = 128
    /\ archs[call.arch].len = 0

(***************************************************************************)
(* C19.  move_to(i, f) with i not the last row calls f exactly once per    *)
(* type, in descriptor order, with the pointer to row i's original value   *)
(* of that type.  A column's row i is overwritten by row last right after  *)
(* f has returned for that column: when f runs for a column, that column   *)
(* and every later one still hold row i's original bytes, while the        *)
(* columns before it already hold row last's.  The only drop thunks run    *)
(* are those f runs, for the types the destination does not carry.         *)
(***************************************************************************)
VisitsInOrder(old, i, cs) ==
    /\ Len(cs) = Len(old.types)
    /\ \A k \in DOMAIN cs :
          LET ty == old.types[k]
          IN  /\ cs[k].ty = ty.id
              /\ cs[k].size = ty.layout.size
              /\ cs[k].ptr = old.offsets[ty.id] + ty.layout.size * i
              /\ cs[k].value = cell(old, ty, i)

VisitorDropsOnly(old, dest, drops) ==
    /\ \A n \in DOMAIN drops :
          drops[n].drop \in ids(old.types) \ ids(dest.types)
    /\ \A t \in TypeIds :
          dropCount'[t] - dropCount[t] =
              IF t \in ids(old.types) \ ids(dest.types) THEN 1 ELSE 0

C19_ColumnCompactedAfterItsVisit ==
    [][(call'.op = "move_to" /\ pending # None) =>
          LET old == archs[call'.arch]
              i == call'.arg
              last == old.len - 1
              cs == call'.calls
          IN  /\ VisitsInOrder(old, i, cs)
              /\ \A k \in DOMAIN cs : \A j \in DOMAIN old.types :
                    cs[k].seen[j] = cell(old, old.types[j], IF j >= k THEN i ELSE last)
              /\ row(archs'[call'.arch], i) = row(old, last)
              /\ VisitorDropsOnly(old, archs[unwrap(pending).arch], call'.drops)]_vars

C19_Witness ==
    /\ call.op = "move_to"
    /\ call.arg < archs[call.arch].len
    /\ Len(call.calls) = 2
    /\ call.calls[2].seen[1] # call.calls[1].value
    /\ call.drops # <<>>

\* C19 as stated: no column's row i is overwritten while calls of the visitor
\* for later columns are pending.
C19_CompactionAfterAllVisits ==
    [][(call'.op = "move_to" /\ pending # None) =>
          LET old == archs[call'.arch]
              i == call'.arg
              cs == call'.calls
          IN  /\ VisitsInOrder(old, i, cs)
              /\ \A k \in DOMAIN cs : \A j \in DOMAIN old.types :
                    cs[k].seen[j] = cell(old, old.types[j], i)
              /\ VisitorDropsOnly(old, archs[unwrap(pending).arch], call'.drops)]_vars

(***************************************************************************)
(* C13.  Whenever capacity > 0, the offset of every declared type is the   *)
(* one the layout algorithm gives for the current capacity (the cursor     *)
(* rounded up to the type's alignment, then advanced by size * capacity,   *)
(* over the descriptors in order), and it is a multiple of the type's      *)
(* alignment.                                                              *)
(***************************************************************************)
round_up(x, a) == CHOOSE m \in x..(x + a - 1) : m % a = 0

RECURSIVE cursor_after(_, _, _)
cursor_after(tys, k, N) ==
    IF k = 0
    THEN 0
    ELSE round_up(cursor_after(tys, k - 1, N), tys[k].layout.align)
         + tys[k].layout.size * N

C13_OffsetsFollowLayout ==
    \A a \in ArchIds :
        capacity(archs[a]) > 0 =>
            /\ DOMAIN archs[a].offsets = ids(archs[a].types)
            /\ \A k \in DOMAIN archs[a].types :
                  LET ty == archs[a].types[k]
                  IN  /\ archs[a].offsets[ty.id] =
                            round_up(cursor_after(archs[a].types, k - 1, capacity(archs[a])),
                                     ty.layout.align)
                      /\ archs[a].offsets[ty.id] % ty.layout.align = 0

C13_Witness ==
    /\ capacity(archs[1]) = 128
    /\ archs[1].types = <<TC, TD, TE>>
    /\ archs[1].offsets[TE.id] = 2048

(***************************************************************************)
(* C18.  a < b exactly when align(a) > align(b), or the alignments are     *)
(* equal and id(a) < id(b); the relation is a strict total order; cmp      *)
(* yields Equal exactly when a == b, which is equality of the ids; the     *)
(* drop thunk takes part in neither.                                       *)
(***************************************************************************)
Before(a, b) ==
    \/ a.layout.align > b.layout.align
    \/ a.layout.align = b.layout.align /\ a.id < b.id

C18_OrderingContract ==
    /\ call.op = "cmp" =>
          LET a == call.arg[1]
              b == call.arg[2]
              r == unwrap(call.ret)
          IN  /\ (r.cmp = "Less") <=> Before(a, b)
              /\ (r.cmp = "Greater") <=> Before(b, a)
              /\ (r.cmp = "Equal") <=> r.eq
              /\ r.eq <=> (a = b)
              /\ r.rev = reverse(r.cmp)
              /\ \A d \in LayoutTypeIds :
                    /\ cmp([a EXCEPT !.drop = d], b) = r.cmp
                    /\ cmp(a, [b EXCEPT !.drop = d]) = r.cmp
                    /\ eq([a EXCEPT !.drop = d], b) = r.eq
    /\ \A x \in LayoutTypes, y \in LayoutTypes, z \in LayoutTypes :
          /\ ~lt(x, x)
          /\ (lt(x, y) /\ lt(y, z)) => lt(x, z)
          /\ x # y => (lt(x, y) \/ lt(y, x))
    /\ \A a \in ArchIds :
          /\ sorted(archs[a].types)
          /\ \A i \in DOMAIN archs[a].types : \A j \in DOMAIN archs[a].types :
                i < j => Before(archs[a].types[i], archs[a].types[j])

C18_Witness ==
    /\ call.op = "cmp"
    /\ call.arg = <<TD, TA>>
    /\ unwrap(call.ret).cmp = "Greater"
    /\ archs[1].types = <<TC, TA, TB>>

(***************************************************************************)
(* C20.  At every capacity the archetype reaches, the byte ranges          *)
(* [offsets[T], offsets[T] + size(T) * capacity) of distinct types are     *)
(* pairwise disjoint and lie inside the buffer, so the slots of two        *)
(* different columns, at whatever rows below the capacity, have no byte    *)
(* in common.                                                              *)
(***************************************************************************)
column_start(self, ty) == self.offsets[ty.id]
column_end(self, ty) == self.offsets[ty.id] + ty.layout.size * capacity(self)
slot(self, ty, j) ==
    {self.offsets[ty.id] + ty.layout.size * j + b : b \in 0..(ty.layout.size - 1)}

C20_ColumnsDisjoint ==
    \A a \in ArchIds :
        capacity(archs[a]) > 0 =>
            LET self == archs[a]
                Rows == {0, self.len - 1, capacity(self) - 1} \cap 0..(capacity(self) - 1)
            IN  /\ \A k \in DOMAIN self.types :
                      /\ column_start(self, self.types[k]) >= 0
                      /\ column_end(self, self.types[k]) <= Len(self.data)
                /\ \A k1 \in DOMAIN self.types, k2 \in DOMAIN self.types :
                      k1 # k2 =>
                          /\ \/ column_end(self, self.types[k1]) <= column_start(self, self.types[k2])
                             \/ column_end(self, self.types[k2]) <= column_start(self, self.types[k1])
                          /\ \A r1 \in Rows, r2 \in Rows :
                                slot(self, self.types[k1], r1)
                                    \cap slot(self, self.types[k2], r2) = {}

C20_Witness ==
    /\ capacity(archs[1]) = 128
    /\ archs[1].types = <<TD, TE, TB>>
    /\ Len(archs[1].data) = 1408
    /\ call.op = "put_dynamic"

(***************************************************************************)
(* C15.  In a debug build every row-taking operation (entity_id, get,      *)
(* get_dynamic, put_dynamic, remove, move_to) called with a row index      *)
(* i >= len fails a check and leaves len, the sidecar and every column as  *)
(* they were, whatever the descriptor sequence, the empty one included,    *)
(* and also when len = 0.                                                  *)
(***************************************************************************)
C15_OutOfBoundsRowChecked ==
    [][("panic" \in DOMAIN call' /\ call'.arg >= archs[call'.arch].len) =>
          /\ call'.panic
          /\ archs' = archs]_vars

(***************************************************************************)
(* C16.  In a debug build put_dynamic and get_dynamic called for a type of *)
(* the archetype with a size other than the size of the type's descriptor  *)
(* fail a check: no address is returned and no byte is written.            *)
(***************************************************************************)
C16_SizeMismatchChecked ==
    [][("panic" \in DOMAIN call'
          /\ call'.op \in {"get_dynamic", "put_dynamic"}
          /\ call'.ty \in ids(archs[call'.arch].types)
          /\ call'.size # type_of(call'.ty).layout.size) =>
          /\ call'.panic
          /\ archs' = archs]_vars
====
